---- MODULE Spec2Model ----
(***************************************************************************)
(* cargo_metadata: one synchronous request/decode cycle per call.          *)
(*                                                                         *)
(*   metadata_deps (src/src/lib.rs:123-140)                                *)
(*     env::var("CARGO") -> Command -> output() -> from_utf8 -> from_str   *)
(*                                                                         *)
(* The typed data model (lib.rs:31-92) is decoded by serde's derived       *)
(* Deserialize; the decoders below follow the derive's rules field by      *)
(* field: a plain field is required, Option<T> may be missing or null,     *)
(* #[serde(default)] may be missing, unknown members are skipped.          *)
(*                                                                         *)
(* Abstraction of the byte level: the captured stdout is a record that     *)
(* says whether the bytes are valid UTF-8, whether the text is             *)
(* syntactically JSON, and, when it is, the JSON value tree. The text to   *)
(* tree step is not modelled; the tree to typed graph step is.             *)
(***************************************************************************)
EXTENDS Integers, Sequences, FiniteSets, TLC

(***************************************************************************)
(* JSON values. Every value is a record of the same shape so that values   *)
(* of different kinds can sit in one set:                                  *)
(*   k  kind: "null" | "int" | "str" | "arr" | "obj"                       *)
(*   s  the text of a string                                               *)
(*   n  the number of an integer                                           *)
(*   a  the elements of an array                                           *)
(*   m  the members of an object, in document order, as [key, val]         *)
(***************************************************************************)
JNull == [k |-> "null", s |-> "", n |-> 0, a |-> <<>>, m |-> <<>>]

JStr(x) == [k |-> "str", s |-> x, n |-> 0, a |-> <<>>, m |-> <<>>]

JInt(x) == [k |-> "int", s |-> "", n |-> x, a |-> <<>>, m |-> <<>>]

JArr(xs) == [k |-> "arr", s |-> "", n |-> 0, a |-> xs, m |-> <<>>]

JObj(ms) == [k |-> "obj", s |-> "", n |-> 0, a |-> <<>>, m |-> ms]

Mem(key, val) == [key |-> key, val |-> val]

JStrs(xs) == JArr([i \in 1..Len(xs) |-> JStr(xs[i])])

(***************************************************************************)
(* The derived visitor of a struct (visit_map): it walks the members,      *)
(* matches each key against the declared field names, skips a key it does  *)
(* not know (no deny_unknown_fields on any struct), and fails on a         *)
(* declared field met twice.                                               *)
(*   err   the walk failed                                                 *)
(*   got   the members whose key is a declared field                       *)
(***************************************************************************)
VisitMapStrict(j, fields) ==
    LET known == SelectSeq(j.m, LAMBDA e : e.key \in fields)
    IN  [err |-> \/ j.k # "obj"
                 \/ \E a, b \in DOMAIN known : a # b /\ known[a].key = known[b].key
                 \/ \E i \in DOMAIN j.m : j.m[i].key \notin fields,
         got |-> known]

VisitMap(j, fields) ==
    LET known == SelectSeq(j.m, LAMBDA e : e.key \in fields)
    IN  [err |-> \/ j.k # "obj"
                 \/ \E a, b \in DOMAIN known : a # b /\ known[a].key = known[b].key,
         got |-> known]

Has(got, f) == \E i \in DOMAIN got : got[i].key = f

Get(got, f) == IF Has(got, f)
               THEN got[CHOOSE i \in DOMAIN got : got[i].key = f].val
               ELSE JNull

(***************************************************************************)
(* Leaf decoders. Each returns [ok, val]; val is the type's empty value    *)
(* when ok is FALSE.                                                       *)
(***************************************************************************)
DecodeString(j) == [ok |-> j.k = "str", val |-> IF j.k = "str" THEN j.s ELSE ""]

DecodeUsize(j) ==
    LET good == j.k = "int" /\ j.n >= 0
    IN  [ok |-> good, val |-> IF good THEN j.n ELSE 0]

DecodeVecString(j) ==
    LET good == j.k = "arr" /\ \A i \in DOMAIN j.a : j.a[i].k = "str"
    IN  [ok |-> good,
         val |-> IF good THEN [i \in DOMAIN j.a |-> j.a[i].s] ELSE <<>>]

\* Option<String>: null is None, anything else must be a string.
None == [some |-> FALSE, v |-> ""]

Some(x) == [some |-> TRUE, v |-> x]

DecodeOptionString(j) ==
    IF j.k = "null" THEN [ok |-> TRUE, val |-> None]
    ELSE [ok |-> j.k = "str", val |-> IF j.k = "str" THEN Some(j.s) ELSE None]

\* HashMap<String, Vec<String>>: an object; a key met twice keeps its last value.
DecodeFeatures(j) ==
    LET good == j.k = "obj" /\ \A i \in DOMAIN j.m : DecodeVecString(j.m[i].val).ok
        last(key) == CHOOSE i \in DOMAIN j.m :
                        /\ j.m[i].key = key
                        /\ \A i2 \in DOMAIN j.m : j.m[i2].key = key => i2 <= i
    IN  [ok |-> good,
         val |-> IF good
                 THEN {[key |-> j.m[i].key,
                        val |-> DecodeVecString(j.m[last(j.m[i].key)].val).val]
                       : i \in DOMAIN j.m}
                 ELSE {}]

\* Vec<T>, given each element's decode: an array all of whose elements decode.
CollectVec(j, each) ==
    LET good == j.k = "arr" /\ \A i \in DOMAIN each : each[i].ok
    IN  [ok |-> good,
         val |-> IF good THEN [i \in DOMAIN each |-> each[i].val] ELSE <<>>]

(***************************************************************************)
(* Dependency lives in the module `dependency` (lib.rs:27-29), which is    *)
(* not part of the sources at hand. Its shape is taken from the data       *)
(* model's description: a name, a version requirement, and a kind that is  *)
(* Normal when absent or null.                                             *)
(***************************************************************************)
DependencyFields == {"name", "req", "kind"}

NoDependency == [name |-> "", req |-> "", kind |-> "Normal"]

DecodeDependency(j) ==
    LET v    == VisitMap(j, DependencyFields)
        g    == v.got
        name == DecodeString(Get(g, "name"))
        req  == DecodeString(Get(g, "req"))
        kind == Get(g, "kind")
        good == /\ ~v.err
                /\ Has(g, "name") /\ name.ok
                /\ Has(g, "req") /\ req.ok
                /\ \/ kind.k = "null"
                   \/ kind.k = "str" /\ kind.s \in {"dev", "build"}
    IN  [ok |-> good,
         val |-> IF good
                 THEN [name |-> name.val,
                       req  |-> req.val,
                       kind |-> IF kind.k = "null" THEN "Normal"
                                ELSE IF kind.s = "dev" THEN "Development"
                                ELSE "Build"]
                 ELSE NoDependency]

DecodeVecDependency(j) == CollectVec(j, [i \in DOMAIN j.a |-> DecodeDependency(j.a[i])])

(***************************************************************************)
(* struct Target (lib.rs:79-92)                                            *)
(***************************************************************************)
TargetFields == {"name", "kind", "crate_types", "src_path"}

NoTarget == [name |-> "", kind |-> <<>>, crate_types |-> <<>>, src_path |-> ""]

\* The derive without #[serde(default)] on crate_types.
DecodeTargetNoDefault(j) ==
    LET v           == VisitMap(j, TargetFields)
        g           == v.got
        name        == DecodeString(Get(g, "name"))
        kind        == DecodeVecString(Get(g, "kind"))
        crate_types == DecodeVecString(Get(g, "crate_types"))
        src_path    == DecodeString(Get(g, "src_path"))
        good == /\ ~v.err
                /\ Has(g, "name") /\ name.ok
                /\ Has(g, "kind") /\ kind.ok
                /\ Has(g, "crate_types") /\ crate_types.ok
                /\ Has(g, "src_path") /\ src_path.ok
    IN  [ok |-> good,
         val |-> IF good
                 THEN [name        |-> name.val,
                       kind        |-> kind.val,
                       crate_types |-> crate_types.val,
                       src_path    |-> src_path.val]
                 ELSE NoTarget]

DecodeTarget(j) ==
    LET v           == VisitMap(j, TargetFields)
        g           == v.got
        name        == DecodeString(Get(g, "name"))
        kind        == DecodeVecString(Get(g, "kind"))
        crate_types == DecodeVecString(Get(g, "crate_types"))
        src_path    == DecodeString(Get(g, "src_path"))
        good == /\ ~v.err
                /\ Has(g, "name") /\ name.ok
                /\ Has(g, "kind") /\ kind.ok
                /\ Has(g, "crate_types") => crate_types.ok
                /\ Has(g, "src_path") /\ src_path.ok
    IN  [ok |-> good,
         val |-> IF good
                 THEN [name        |-> name.val,
                       kind        |-> kind.val,
                       crate_types |-> IF Has(g, "crate_types") THEN crate_types.val
                                       ELSE <<>>,
                       src_path    |-> src_path.val]
                 ELSE NoTarget]

DecodeVecTarget(j) == CollectVec(j, [i \in DOMAIN j.a |-> DecodeTarget(j.a[i])])

(***************************************************************************)
(* struct Package (lib.rs:60-77)                                           *)
(***************************************************************************)
PackageFields == {"name", "version", "id", "source", "dependencies", "targets",
                  "features", "manifest_path"}

NoPackage == [name |-> "", version |-> "", id |-> "", source |-> None,
              dependencies |-> <<>>, targets |-> <<>>, features |-> {},
              manifest_path |-> ""]

DecodePackage(j) ==
    LET v             == VisitMap(j, PackageFields)
        g             == v.got
        name          == DecodeString(Get(g, "name"))
        version       == DecodeString(Get(g, "version"))
        id            == DecodeString(Get(g, "id"))
        source        == DecodeOptionString(Get(g, "source"))
        dependencies  == DecodeVecDependency(Get(g, "dependencies"))
        targets       == DecodeVecTarget(Get(g, "targets"))
        features      == DecodeFeatures(Get(g, "features"))
        manifest_path == DecodeString(Get(g, "manifest_path"))
        good == /\ ~v.err
                /\ Has(g, "name") /\ name.ok
                /\ Has(g, "version") /\ version.ok
                /\ Has(g, "id") /\ id.ok
                /\ Has(g, "source") => source.ok
                /\ Has(g, "dependencies") /\ dependencies.ok
                /\ Has(g, "targets") /\ targets.ok
                /\ Has(g, "features") /\ features.ok
                /\ Has(g, "manifest_path") /\ manifest_path.ok
    IN  [ok |-> good,
         val |-> IF good
                 THEN [name          |-> name.val,
                       version       |-> version.val,
                       id            |-> id.val,
                       source        |-> IF Has(g, "source") THEN source.val ELSE None,
                       dependencies  |-> dependencies.val,
                       targets       |-> targets.val,
                       features      |-> features.val,
                       manifest_path |-> manifest_path.val]
                 ELSE NoPackage]

DecodeVecPackage(j) == CollectVec(j, [i \in DOMAIN j.a |-> DecodePackage(j.a[i])])

(***************************************************************************)
(* struct Node (lib.rs:51-58) and struct Resolve (lib.rs:44-49)            *)
(***************************************************************************)
NodeFields == {"id", "dependencies"}

NoNode == [id |-> "", dependencies |-> <<>>]

DecodeNode(j) ==
    LET v            == VisitMap(j, NodeFields)
        g            == v.got
        id           == DecodeString(Get(g, "id"))
        dependencies == DecodeVecString(Get(g, "dependencies"))
        good == /\ ~v.err
                /\ Has(g, "id") /\ id.ok
                /\ Has(g, "dependencies") /\ dependencies.ok
    IN  [ok |-> good,
         val |-> IF good
                 THEN [id |-> id.val, dependencies |-> dependencies.val]
                 ELSE NoNode]

DecodeVecNode(j) == CollectVec(j, [i \in DOMAIN j.a |-> DecodeNode(j.a[i])])

ResolveFields == {"nodes"}

\* Option<Resolve> as a value: some says whether a graph is there.
NoResolve == [some |-> FALSE, nodes |-> <<>>]

DecodeResolve(j) ==
    LET v     == VisitMap(j, ResolveFields)
        g     == v.got
        nodes == DecodeVecNode(Get(g, "nodes"))
        good  == ~v.err /\ Has(g, "nodes") /\ nodes.ok
    IN  [ok |-> good,
         val |-> IF good THEN [some |-> TRUE, nodes |-> nodes.val] ELSE NoResolve]

DecodeOptionResolve(j) ==
    IF j.k = "null" THEN [ok |-> TRUE, val |-> NoResolve] ELSE DecodeResolve(j)

(***************************************************************************)
(* struct Metadata (lib.rs:31-42). `version` is a private usize: the       *)
(* derive requires it and stores it; nothing reads it afterwards.          *)
(***************************************************************************)
MetadataFields == {"packages", "workspace_members", "resolve", "version"}

NoMetadata == [packages |-> <<>>, workspace_members |-> <<>>, resolve |-> NoResolve,
               version |-> 0]

DecodeMetadata(j) ==
    LET v                 == VisitMap(j, MetadataFields)
        g                 == v.got
        packages          == DecodeVecPackage(Get(g, "packages"))
        workspace_members == DecodeVecString(Get(g, "workspace_members"))
        resolve           == DecodeOptionResolve(Get(g, "resolve"))
        version           == DecodeUsize(Get(g, "version"))
        good == /\ ~v.err
                /\ Has(g, "packages") /\ packages.ok
                /\ Has(g, "workspace_members") => workspace_members.ok
                /\ Has(g, "resolve") => resolve.ok
                /\ Has(g, "version") /\ version.ok
    IN  [ok |-> good,
         val |-> IF good
                 THEN [packages          |-> packages.val,
                       workspace_members |-> IF Has(g, "workspace_members")
                                             THEN workspace_members.val
                                             ELSE <<>>,
                       resolve           |-> IF Has(g, "resolve") THEN resolve.val
                                             ELSE NoResolve,
                       version           |-> version.val]
                 ELSE NoMetadata]

(***************************************************************************)
(* The documents the external tool may print. They are built from one      *)
(* well-formed document by the variations the claims speak of: the value   *)
(* of "version", which packages, members and nodes are listed, a declared  *)
(* member left out, a declared member given twice, and members no struct   *)
(* declares added to an object.                                            *)
(***************************************************************************)
MaxPkgs == 2

PkgIds == {"a", "b"}

Without(ms, key) == SelectSeq(ms, LAMBDA e : e.key # key)

WithExtra(ms, extra) ==
    IF extra THEN <<Mem("edition", JStr("2018"))>> \o ms \o <<Mem("license", JNull)>>
    ELSE ms

TargetMembers ==
    << Mem("name", JStr("lib1")),
       Mem("kind", JStrs(<<"lib">>)),
       Mem("crate_types", JStrs(<<"rlib">>)),
       Mem("src_path", JStr("/w/src/lib.rs")) >>

TargetDoc(omit, extra) == JObj(WithExtra(Without(TargetMembers, omit), extra))

DependencyDoc ==
    JObj(<< Mem("name", JStr("serde")), Mem("req", JStr("^1.0")), Mem("kind", JNull) >>)

PackageMembers(id, target) ==
    << Mem("name", JStr(id)),
       Mem("version", JStr("0.1.0")),
       Mem("id", JStr(id)),
       Mem("source", JStr("registry")),
       Mem("dependencies", JArr(<<DependencyDoc>>)),
       Mem("targets", JArr(<<target>>)),
       Mem("features", JObj(<<Mem("default", JStrs(<<"std">>))>>)),
       Mem("manifest_path", JStr("/w/Cargo.toml")) >>

PackageDoc(id, target, omit, extra) ==
    JObj(WithExtra(Without(PackageMembers(id, target), omit), extra))

PlainPackage(id) == PackageDoc(id, TargetDoc("", FALSE), "", FALSE)

NodeMembers(id, deps) ==
    << Mem("id", JStr(id)), Mem("dependencies", JStrs(deps)) >>

NodeDoc(id, deps, omit, extra) ==
    JObj(WithExtra(Without(NodeMembers(id, deps), omit), extra))

ResolveDoc(nodes, omit, extra) ==
    JObj(WithExtra(Without(<<Mem("nodes", JArr(nodes))>>, omit), extra))

RootMembers(version, packages, members, resolve) ==
    << Mem("packages", JArr(packages)),
       Mem("workspace_members", JStrs(members)),
       Mem("resolve", resolve),
       Mem("version", version) >>

RootDoc(version, packages, members, resolve, omit, extra) ==
    JObj(WithExtra(Without(RootMembers(version, packages, members, resolve), omit),
                   extra))

\* Sequences over S of length at most n.
SeqsUpTo(S, n) == UNION {[1..len -> S] : len \in 0..n}

\* The resolve graphs printed for a package list: none, null, one node per
\* package each depending on the first, a node depending on an id that is
\* nowhere (z), a node for an id that is no package (z).
ResolveDocs(ids) ==
    { JNull,
      ResolveDoc([i \in DOMAIN ids |-> NodeDoc(ids[i], <<ids[1]>>, "", FALSE)], "", FALSE),
      ResolveDoc(<<NodeDoc("a", <<"z">>, "", FALSE)>>, "", FALSE),
      ResolveDoc(<<NodeDoc("z", <<>>, "", FALSE)>>, "", FALSE) }

\* Documents that differ in which ids they list and in their version.
GraphDocsOf(ids) ==
    { RootDoc(JInt(v), [i \in DOMAIN ids |-> PlainPackage(ids[i])], wm, rs, omit, FALSE) :
        v \in {1, 2},
        wm \in {<<>>, <<"a">>, <<"z">>},
        rs \in ResolveDocs(ids),
        omit \in {"", "resolve"} }

GraphDocs == UNION {GraphDocsOf(ids) : ids \in SeqsUpTo(PkgIds, MaxPkgs)}

\* Which objects of a document carry members no struct declares.
ExtraSpots == {"none", "root", "package", "target", "resolve", "node", "all"}

At(spot, where) == spot \in {where, "all"}

\* One package, one target, one node; one declared member left out (what is
\* one of "", a root, package, target, resolve or node member, tagged by the
\* object it is left out of) and extra members at spot.
ShapeDoc(what, spot) ==
    LET om(obj) == IF what[1] = obj THEN what[2] ELSE ""
        target  == TargetDoc(om("target"), At(spot, "target"))
        package == PackageDoc("a", target, om("package"), At(spot, "package"))
        node    == NodeDoc("a", <<"a">>, om("node"), At(spot, "node"))
        resolve == ResolveDoc(<<node>>, om("resolve"), At(spot, "resolve"))
    IN  RootDoc(JInt(1), <<package>>, <<"a">>, resolve, om("root"), At(spot, "root"))

Omissions ==
    {<<"none", "">>}
    \cup {<<"root", f>> : f \in MetadataFields}
    \cup {<<"package", f>> : f \in PackageFields}
    \cup {<<"target", f>> : f \in TargetFields}
    \cup {<<"resolve", f>> : f \in ResolveFields}
    \cup {<<"node", f>> : f \in NodeFields}

ShapeDocs == {ShapeDoc(what, spot) : what \in Omissions, spot \in ExtraSpots}

\* Documents whose "version" is not an unsigned integer, a declared member
\* given twice, a member of the wrong kind, and roots that are no object.
OddDocs ==
    { RootDoc(JInt(-1), <<PlainPackage("a")>>, <<"a">>, JNull, "", FALSE),
      RootDoc(JInt(0), <<PlainPackage("a")>>, <<"a">>, JNull, "", FALSE),
      RootDoc(JStr("1"), <<PlainPackage("a")>>, <<"a">>, JNull, "", FALSE),
      JObj(RootMembers(JInt(1), <<>>, <<>>, JNull) \o <<Mem("version", JInt(1))>>),
      JObj(<<Mem("packages", JNull), Mem("version", JInt(1))>>),
      JObj(<<Mem("packages", JArr(<<>>)), Mem("workspace_members", JNull),
             Mem("version", JInt(1))>>),
      JNull, JInt(1), JStr("{}") }

Docs == GraphDocs \cup ShapeDocs \cup OddDocs

\* What the pipe may hold when the process has exited.
\*   form  "invalid_utf8" | "empty" | "malformed" | "json"
\*   doc   the value tree of the text when form is "json"
Text(doc) == [form |-> "json", doc |-> doc]

Stdouts ==
    {[form |-> f, doc |-> JNull] : f \in {"invalid_utf8", "empty", "malformed"}}
    \cup {Text(d) : d \in Docs}

(***************************************************************************)
(* The environment of a call.                                              *)
(***************************************************************************)
\* The values CARGO may hold in the process environment: not set, set to
\* Unicode text, set to bytes that are not Unicode (an OsString that is no
\* String).
EnvValues ==
    { [set |-> FALSE, unicode |-> TRUE, v |-> ""],
      [set |-> TRUE, unicode |-> TRUE, v |-> "/opt/rust/bin/cargo"],
      [set |-> TRUE, unicode |-> FALSE, v |-> "/opt/caf<E9>/bin/cargo"] }

\* The directory the calling process runs in.
CallerDir == "/home/user/project"

Paths == {"Cargo.toml", "foo/Cargo.toml"}

OptionPaths == {None} \cup {Some(p) : p \in Paths}

OptionDirs == {None, Some("/srv/checkout")}

\* What the tool writes to stderr, as characters.
Stderrs == { <<>>, <<" ", "e", "r", "r", "o", "r", ":", " ", "x", "\n">> }

Whitespace == {" ", "\n", "\t", "\r"}

(***************************************************************************)
(* State.                                                                  *)
(*   env     the value of CARGO in the process environment                 *)
(*   call    the entry point entered and its parameters                    *)
(*   pc      where the call stands:                                        *)
(*             "idle" "cmd" "running" "exited" "text" "done"               *)
(*   cmd     the std::process::Command built so far                        *)
(*   child   the process the operating system was asked to start           *)
(*   output  what Command::output() captured                               *)
(*   result  what the call returns                                         *)
(*   trace   the steps the call has taken, in order                        *)
(***************************************************************************)
VARIABLES env, call, pc, cmd, child, output, result, trace

vars == <<env, call, pc, cmd, child, output, result, trace>>

NoCall == [entry |-> "", manifest_path |-> None, deps |-> FALSE, current_dir |-> None]

NoChild == [program |-> "", args |-> <<>>, dir |-> ""]

NoOutput == [success |-> FALSE, stdout |-> [form |-> "empty", doc |-> JNull],
             stderr |-> <<>>]

NoResult == [kind |-> "none", msg |-> <<>>, meta |-> NoMetadata]

Err(kind) == [kind |-> kind, msg |-> <<>>, meta |-> NoMetadata]

Ok(meta) == [kind |-> "Ok", msg |-> <<>>, meta |-> meta]

(***************************************************************************)
(* std::env::var (lib.rs:124): Ok only for a variable that is set and      *)
(* holds Unicode; NotPresent and NotUnicode are both Err.                  *)
(***************************************************************************)
EnvVar(e) == [ok |-> e.set /\ e.unicode, val |-> IF e.set /\ e.unicode THEN e.v ELSE ""]

\* Command::new, arg, args (lib.rs:125-135).
CommandNew(program) == [program |-> program, args |-> <<>>, current_dir |-> None]

Arg(c, a) == [c EXCEPT !.args = Append(@, a)]

Args(c, as) == [c EXCEPT !.args = @ \o as]

\* Path::as_os_str keeps the path as it is.
AsOsStr(p) == p

\* The --no-deps test turned around.
BuildCommandDepsFlipped(e, manifest_path, deps) ==
    LET cargo == IF EnvVar(e).ok THEN EnvVar(e).val ELSE "cargo"
        c1    == Arg(CommandNew(cargo), "metadata")
        c2    == IF deps THEN Arg(c1, "--no-deps") ELSE c1
        c3    == Args(c2, <<"--format-version", "1">>)
    IN  IF manifest_path.some
        THEN Arg(Arg(c3, "--manifest-path"), AsOsStr(manifest_path.v))
        ELSE c3

\* The command also told to run in the manifest's directory.
BuildCommandInManifestDir(e, manifest_path, deps) ==
    LET cargo == IF EnvVar(e).ok THEN EnvVar(e).val ELSE "cargo"
        c0    == [CommandNew(cargo) EXCEPT !.current_dir = Some("/manifest/dir")]
        c1    == Arg(c0, "metadata")
        c2    == IF ~deps THEN Arg(c1, "--no-deps") ELSE c1
        c3    == Args(c2, <<"--format-version", "1">>)
    IN  IF manifest_path.some
        THEN Arg(Arg(c3, "--manifest-path"), AsOsStr(manifest_path.v))
        ELSE c3

\* lib.rs:124-135: the command metadata_deps builds before it runs it.
BuildCommand(e, manifest_path, deps) ==
    LET cargo == IF EnvVar(e).ok THEN EnvVar(e).val ELSE "cargo"
        c1    == Arg(CommandNew(cargo), "metadata")
        c2    == IF ~deps THEN Arg(c1, "--no-deps") ELSE c1
        c3    == Args(c2, <<"--format-version", "1">>)
    IN  IF manifest_path.some
        THEN Arg(Arg(c3, "--manifest-path"), AsOsStr(manifest_path.v))
        ELSE c3

\* The bytes taken for text without looking (from_utf8_unchecked).
FromUtf8Unchecked(stdout) == TRUE

\* std::str::from_utf8 (lib.rs:137) on the captured bytes.
FromUtf8Ok(stdout) == stdout.form # "invalid_utf8"

\* serde_json::from_str::<Metadata> (lib.rs:138): the text must be one JSON
\* value, and the value must decode as Metadata.
FromStr(stdout) ==
    IF stdout.form = "json" THEN DecodeMetadata(stdout.doc)
    ELSE [ok |-> FALSE, val |-> NoMetadata]

Init ==
    /\ env \in EnvValues
    /\ call = NoCall
    /\ pc = "idle"
    /\ cmd = CommandNew("")
    /\ child = NoChild
    /\ output = NoOutput
    /\ result = NoResult
    /\ trace = <<>>

\* metadata_deps is entered (lib.rs:123-135): CARGO is read and the command
\* is built.
MetadataDeps(manifest_path, deps) ==
    /\ pc = "idle"
    /\ call' = [entry |-> "metadata_deps", manifest_path |-> manifest_path,
                deps |-> deps, current_dir |-> None]
    /\ cmd' = BuildCommand(env, manifest_path, deps)
    /\ pc' = "cmd"
    /\ UNCHANGED <<env, child, output, result, trace>>

\* metadata (lib.rs:113-115) is metadata_deps(manifest_path, false).
Metadata(manifest_path) ==
    /\ pc = "idle"
    /\ call' = [entry |-> "metadata", manifest_path |-> manifest_path,
                deps |-> FALSE, current_dir |-> None]
    /\ cmd' = BuildCommand(env, manifest_path, FALSE)
    /\ pc' = "cmd"
    /\ UNCHANGED <<env, child, output, result, trace>>

\* cmd.output() (lib.rs:136), first half: the child is started with the
\* command's program and arguments, in the command's directory when one is
\* set and in the caller's otherwise.
SpawnOk ==
    /\ pc = "cmd"
    /\ child' = [program |-> cmd.program, args |-> cmd.args,
                 dir |-> IF cmd.current_dir.some THEN cmd.current_dir.v ELSE CallerDir]
    /\ trace' = Append(trace, "spawn")
    /\ pc' = "running"
    /\ UNCHANGED <<env, call, cmd, output, result>>

\* A failed spawn tried again instead of returned.
SpawnFailRetry ==
    /\ pc = "cmd"
    /\ trace' = Append(trace, "spawn_failed")
    /\ pc' = "cmd"
    /\ UNCHANGED <<env, call, cmd, child, output, result>>

\* cmd.output()? when the program cannot be started: the io::Error leaves
\* the function through `?`.
SpawnFail ==
    /\ pc = "cmd"
    /\ trace' = Append(trace, "spawn_failed")
    /\ result' = Err("Io")
    /\ pc' = "done"
    /\ UNCHANGED <<env, call, cmd, child, output>>

\* cmd.output(), second half: the call blocks until the child has exited
\* and both pipes are read to their end.
Output(success, stdout, stderr) ==
    /\ pc = "running"
    /\ call.entry # "exec"
    /\ output' = [success |-> success, stdout |-> stdout, stderr |-> stderr]
    /\ trace' = Append(trace, "wait")
    /\ pc' = "exited"
    /\ UNCHANGED <<env, call, cmd, child, result>>

\* cmd.output()? when reading the pipes or waiting fails.
OutputFail ==
    /\ pc = "running"
    /\ trace' = Append(trace, "wait_failed")
    /\ result' = Err("Io")
    /\ pc' = "done"
    /\ UNCHANGED <<env, call, cmd, child, output>>

\* from_utf8(&output.stdout)? (lib.rs:137)
FromUtf8 ==
    /\ pc = "exited"
    /\ trace' = Append(trace, "from_utf8")
    /\ IF FromUtf8Ok(output.stdout)
       THEN pc' = "text" /\ UNCHANGED result
       ELSE pc' = "done" /\ result' = Err("Utf8")
    /\ UNCHANGED <<env, call, cmd, child, output>>

\* serde_json::from_str(stdout)? and Ok(meta) (lib.rs:138-139)
FromStrStep ==
    /\ pc = "text"
    /\ trace' = Append(trace, "from_str")
    /\ LET meta == FromStr(output.stdout)
       IN  result' = IF meta.ok THEN Ok(meta.val) ELSE Err("Json")
    /\ pc' = "done"
    /\ UNCHANGED <<env, call, cmd, child, output>>

(***************************************************************************)
(* The builder surface the tests drive (tests/selftest.rs:55-105:          *)
(* MetadataCommand::new().manifest_path(..).current_dir(..).exec(), and    *)
(* ErrorKind::CargoMetadata) is not in lib.rs. It is modelled from the     *)
(* design's description: exec renders the same arguments, spawns in the    *)
(* configured directory, and reports a failing exit status as              *)
(* CargoMetadata(stderr, trimmed) before it looks at stdout; after that it *)
(* decodes as metadata_deps does.                                          *)
(***************************************************************************)
RECURSIVE TrimStart(_)
TrimStart(cs) ==
    IF cs # <<>> /\ Head(cs) \in Whitespace THEN TrimStart(Tail(cs)) ELSE cs

RECURSIVE TrimEnd(_)
TrimEnd(cs) ==
    IF cs # <<>> /\ cs[Len(cs)] \in Whitespace
    THEN TrimEnd(SubSeq(cs, 1, Len(cs) - 1))
    ELSE cs

Trim(cs) == TrimEnd(TrimStart(cs))

Exec(manifest_path, deps, current_dir) ==
    /\ pc = "idle"
    /\ call' = [entry |-> "exec", manifest_path |-> manifest_path, deps |-> deps,
                current_dir |-> current_dir]
    /\ cmd' = [BuildCommand(env, manifest_path, deps) EXCEPT !.current_dir = current_dir]
    /\ pc' = "cmd"
    /\ UNCHANGED <<env, child, output, result, trace>>

ExecOutput(success, stdout, stderr) ==
    /\ pc = "running"
    /\ call.entry = "exec"
    /\ output' = [success |-> success, stdout |-> stdout, stderr |-> stderr]
    /\ trace' = Append(trace, "wait")
    /\ IF success
       THEN pc' = "exited" /\ UNCHANGED result
       ELSE /\ pc' = "done"
            /\ result' = [kind |-> "CargoMetadata", msg |-> Trim(stderr),
                          meta |-> NoMetadata]
    /\ UNCHANGED <<env, call, cmd, child>>

(***************************************************************************)
(* Spec: every entry point, every environment, and a sample of what the    *)
(* tool may print (each form of stdout, well-formed documents with and     *)
(* without undeclared members, and the odd documents).                     *)
(***************************************************************************)
SampleStdouts ==
    {[form |-> f, doc |-> JNull] : f \in {"invalid_utf8", "empty", "malformed"}}
    \cup {Text(d) : d \in OddDocs}
    \cup {Text(ShapeDoc(<<"none", "">>, spot)) : spot \in {"none", "all"}}
    \cup {Text(RootDoc(JInt(1), <<PlainPackage("a")>>, <<"z">>, JNull, "", FALSE))}

Next ==
    \/ \E p \in OptionPaths, d \in BOOLEAN : MetadataDeps(p, d)
    \/ \E p \in OptionPaths : Metadata(p)
    \/ \E p \in OptionPaths, d \in BOOLEAN, dir \in OptionDirs : Exec(p, d, dir)
    \/ SpawnOk
    \/ SpawnFail
    \/ \E ok \in BOOLEAN, so \in SampleStdouts, se \in Stderrs : Output(ok, so, se)
    \/ \E ok \in BOOLEAN, so \in SampleStdouts, se \in Stderrs : ExecOutput(ok, so, se)
    \/ OutputFail
    \/ FromUtf8
    \/ FromStrStep

Spec == Init /\ [][Next]_vars

(***************************************************************************)
(* DecodeSpec: the second half of a call of metadata_deps(None, true),     *)
(* from the moment its child runs, over every document of Docs.            *)
(***************************************************************************)
DecodeInit ==
    /\ env \in EnvValues
    /\ call = [entry |-> "metadata_deps", manifest_path |-> None, deps |-> TRUE,
               current_dir |-> None]
    /\ pc = "running"
    /\ cmd = BuildCommand(env, None, TRUE)
    /\ child = [program |-> cmd.program, args |-> cmd.args, dir |-> CallerDir]
    /\ output = NoOutput
    /\ result = NoResult
    /\ trace = <<"spawn">>

DecodeNext ==
    \/ \E ok \in BOOLEAN, so \in Stdouts, se \in Stderrs : Output(ok, so, se)
    \/ OutputFail
    \/ FromUtf8
    \/ FromStrStep

DecodeSpec == DecodeInit /\ [][DecodeNext]_vars

(***************************************************************************)
(* Properties                                                              *)
(***************************************************************************)
Range(f) == {f[i] : i \in DOMAIN f}

Did(step) == \E i \in DOMAIN trace : trace[i] = step

Count(step) == Cardinality({i \in DOMAIN trace : trace[i] = step})

PlainEntry == call.entry \in {"metadata", "metadata_deps"}

\* C1: a call of metadata_deps or metadata whose child was spawned and exited
\* with a failure status returns the tool-reported error carrying the trimmed
\* stderr text, whatever stdout holds; never a decode error, an encoding
\* error or a graph.
C1_FailureStatusIsToolReported ==
    (pc = "done" /\ PlainEntry /\ Did("wait") /\ ~output.success)
        => /\ result.kind = "CargoMetadata"
           /\ result.msg = Trim(output.stderr)

\* C2: the argument vector handed to the child is "metadata", then
\* "--no-deps" exactly when deps is false, then "--format-version" "1", then
\* "--manifest-path" and the path exactly when a path was given, and nothing
\* else; metadata(p) hands over what metadata_deps(p, false) does.
ExpectedArgs(manifest_path, deps) ==
    <<"metadata">>
    \o (IF deps THEN <<>> ELSE <<"--no-deps">>)
    \o <<"--format-version", "1">>
    \o (IF manifest_path.some THEN <<"--manifest-path", manifest_path.v>> ELSE <<>>)

C2_ArgumentVector ==
    Did("spawn") =>
        /\ child.args = ExpectedArgs(call.manifest_path, call.deps)
        /\ call.entry = "metadata" => child.args = ExpectedArgs(call.manifest_path, FALSE)
        /\ Len(child.args) = 3 + (IF call.deps THEN 0 ELSE 1)
                               + (IF call.manifest_path.some THEN 2 ELSE 0)

C2_Witness ==
    /\ Did("spawn")
    /\ call.entry = "metadata"
    /\ call.manifest_path.some
    /\ child.args = <<"metadata", "--no-deps", "--format-version", "1",
                      "--manifest-path", call.manifest_path.v>>

\* C6: the program that is spawned is the value of CARGO whenever the
\* variable is set, whatever it holds, and "cargo" only when it is not set.
C6_ProgramFromEnvironment ==
    (Did("spawn") /\ PlainEntry)
        => child.program = (IF env.set THEN env.v ELSE "cargo")

Steps == <<"spawn", "wait", "from_utf8", "from_str">>

IsPrefix(a, b) == Len(a) <= Len(b) /\ \A i \in DOMAIN a : a[i] = b[i]

C10_OneSpawnNoRetry ==
    /\ Count("spawn") + Count("spawn_failed") <= 1
    /\ \/ IsPrefix(trace, Steps)
       \/ trace = <<"spawn_failed">>
       \/ trace = <<"spawn", "wait_failed">>
    /\ Did("spawn_failed") => pc = "done" /\ result.kind = "Io"
    /\ result.kind \in {"Io", "Utf8", "Json", "CargoMetadata"} => pc = "done"
    /\ result.kind = "Utf8" => trace = <<"spawn", "wait", "from_utf8">>
    /\ result.kind = "Json" => trace = Steps
    /\ (Did("from_utf8") \/ Did("from_str")) => Did("wait") /\ pc \in {"text", "done"}
    /\ pc = "done" => result.kind # "none"

C10_Witness ==
    /\ pc = "done"
    /\ result.kind = "Io"
    /\ trace = <<"spawn_failed">>
    /\ child = NoChild

\* Walking a document: the members and elements a struct's decoder visits.
SetMem(j, key, val) ==
    IF j.k = "obj"
    THEN JObj([i \in DOMAIN j.m |-> IF j.m[i].key = key THEN Mem(key, val) ELSE j.m[i]])
    ELSE j

Elems(j, key) ==
    IF j.k = "obj" /\ Has(j.m, key) /\ Get(j.m, key).k = "arr"
    THEN Get(j.m, key).a
    ELSE <<>>

Lacks(j, key) == j.k = "obj" /\ ~Has(j.m, key)

Decoded == pc = "done" /\ Did("from_str") /\ output.stdout.form = "json"

Outcome(r) == IF r.ok THEN Ok(r.val) ELSE Err("Json")

\* C3: a document whose "version" is an integer other than 1 is refused with
\* the structural decode error; a graph is returned only for version 1.
C3_VersionMismatchRefused ==
    Decoded =>
        LET d == output.stdout.doc
            v == Get(d.m, "version")
        IN  /\ (d.k = "obj" /\ Has(d.m, "version") /\ v.k = "int" /\ v.n # 1)
                   => result.kind = "Json"
            /\ result.kind = "Ok" => v = JInt(1)

\* C4: members that no struct declares, added to the root, a package, a
\* target, the resolve graph or a node, never make a decode fail and never
\* change a decoded field: the call returns what it returns for the document
\* without them.
KeepDeclared(j, fields) ==
    IF j.k = "obj" THEN JObj(SelectSeq(j.m, LAMBDA e : e.key \in fields)) ELSE j

StripTarget(j) == KeepDeclared(j, TargetFields)

StripTargets(j) ==
    IF j.k = "arr" THEN JArr([i \in DOMAIN j.a |-> StripTarget(j.a[i])]) ELSE j

StripPackage(j) ==
    SetMem(KeepDeclared(j, PackageFields), "targets", StripTargets(Get(j.m, "targets")))

StripPackages(j) ==
    IF j.k = "arr" THEN JArr([i \in DOMAIN j.a |-> StripPackage(j.a[i])]) ELSE j

StripNode(j) == KeepDeclared(j, NodeFields)

StripNodes(j) ==
    IF j.k = "arr" THEN JArr([i \in DOMAIN j.a |-> StripNode(j.a[i])]) ELSE j

StripResolve(j) ==
    SetMem(KeepDeclared(j, ResolveFields), "nodes", StripNodes(Get(j.m, "nodes")))

StripRoot(j) ==
    SetMem(SetMem(KeepDeclared(j, MetadataFields),
                  "packages", StripPackages(Get(j.m, "packages"))),
           "resolve", StripResolve(Get(j.m, "resolve")))

C4_UnknownMembersIgnored ==
    Decoded =>
        LET plain == DecodeMetadata(StripRoot(output.stdout.doc))
        IN  plain.ok => result = Ok(plain.val)

C4_Witness ==
    /\ Decoded
    /\ result.kind = "Ok"
    /\ \E i \in DOMAIN output.stdout.doc.m :
          output.stdout.doc.m[i].key \notin MetadataFields
    /\ \E p \in Range(Elems(output.stdout.doc, "packages")) :
          /\ \E i \in DOMAIN p.m : p.m[i].key \notin PackageFields
          /\ \E t \in Range(Elems(p, "targets")) :
                \E i \in DOMAIN t.m : t.m[i].key \notin TargetFields
    /\ \E n \in Range(Elems(Get(output.stdout.doc.m, "resolve"), "nodes")) :
          \E i \in DOMAIN n.m : n.m[i].key \notin NodeFields
    /\ Len(result.meta.packages) = 1
    /\ result.meta.resolve.some

\* C5: a document without "workspace_members" or without a target's
\* "crate_types" decodes with that field empty, without "resolve" or a
\* package's "source" it decodes with that field absent, and in each case it
\* decodes to what the document with the member written out decodes to; a
\* document without any other declared member is refused with the
\* structural decode error and no graph.
AddIfMissing(j, key, val) ==
    IF Lacks(j, key) THEN JObj(Append(j.m, Mem(key, val))) ELSE j

FillTarget(j) == AddIfMissing(j, "crate_types", JArr(<<>>))

FillTargets(j) ==
    IF j.k = "arr" THEN JArr([i \in DOMAIN j.a |-> FillTarget(j.a[i])]) ELSE j

FillPackage(j) ==
    SetMem(AddIfMissing(j, "source", JNull), "targets", FillTargets(Get(j.m, "targets")))

FillPackages(j) ==
    IF j.k = "arr" THEN JArr([i \in DOMAIN j.a |-> FillPackage(j.a[i])]) ELSE j

FillRoot(j) ==
    SetMem(AddIfMissing(AddIfMissing(j, "workspace_members", JArr(<<>>)),
                        "resolve", JNull),
           "packages", FillPackages(Get(j.m, "packages")))

LacksRequired(d) ==
    \/ \E f \in {"packages", "version"} : Lacks(d, f)
    \/ \E p \in Range(Elems(d, "packages")) :
          \/ \E f \in PackageFields \ {"source"} : Lacks(p, f)
          \/ \E t \in Range(Elems(p, "targets")) :
                \E f \in TargetFields \ {"crate_types"} : Lacks(t, f)
    \/ Lacks(Get(d.m, "resolve"), "nodes")
    \/ \E n \in Range(Elems(Get(d.m, "resolve"), "nodes")) :
          \E f \in NodeFields : Lacks(n, f)

C5_MissingMembers ==
    Decoded =>
        LET d == output.stdout.doc
        IN  /\ result = Outcome(DecodeMetadata(FillRoot(d)))
            /\ result.kind = "Ok" =>
                  /\ Lacks(d, "workspace_members") => result.meta.workspace_members = <<>>
                  /\ Lacks(d, "resolve") => ~result.meta.resolve.some
                  /\ \A i \in DOMAIN result.meta.packages :
                        LET p == Elems(d, "packages")[i]
                        IN  /\ Lacks(p, "source")
                               => ~result.meta.packages[i].source.some
                            /\ \A t \in DOMAIN result.meta.packages[i].targets :
                                  Lacks(Elems(p, "targets")[t], "crate_types")
                                  => result.meta.packages[i].targets[t].crate_types = <<>>
            /\ LacksRequired(d) => result = Err("Json")

C5_WitnessMembers ==
    /\ Decoded
    /\ result.kind = "Ok"
    /\ Lacks(output.stdout.doc, "workspace_members")
    /\ result.meta.workspace_members = <<>>
    /\ Len(result.meta.packages) = 1

C5_Witness ==
    /\ Decoded
    /\ result.kind = "Ok"
    /\ \E p \in Range(Elems(output.stdout.doc, "packages")) :
          \E t \in Range(Elems(p, "targets")) : Lacks(t, "crate_types")
    /\ result.meta.packages[1].targets[1].crate_types = <<>>

C5_WitnessRefused ==
    /\ Decoded
    /\ result = Err("Json")
    /\ \E p \in Range(Elems(output.stdout.doc, "packages")) : Lacks(p, "manifest_path")

\* C7: every graph a call returns is referentially consistent: package ids
\* are pairwise distinct, every workspace member is a package id, every
\* resolve node is a package id, and every dependency of a node is a node id
\* or a package id.
Consistent(meta) ==
    LET pkgIds  == {meta.packages[i].id : i \in DOMAIN meta.packages}
        nodeIds == {meta.resolve.nodes[i].id : i \in DOMAIN meta.resolve.nodes}
    IN  /\ \A i, j \in DOMAIN meta.packages :
              i # j => meta.packages[i].id # meta.packages[j].id
        /\ \A w \in Range(meta.workspace_members) : w \in pkgIds
        /\ meta.resolve.some =>
              /\ nodeIds \subseteq pkgIds
              /\ \A i \in DOMAIN meta.resolve.nodes :
                    Range(meta.resolve.nodes[i].dependencies) \subseteq pkgIds \cup nodeIds

C7_ReturnedGraphConsistent == result.kind = "Ok" => Consistent(result.meta)

\* C9: after a success status the first failing stage decides: bytes that are
\* not UTF-8 give the encoding error and JSON parsing is not attempted; text
\* that is not a document of the schema gives the structural decode error;
\* otherwise the graph decoded from stdout is returned. stderr plays no part.
C9_DecodeStageOrder ==
    (pc = "done" /\ PlainEntry /\ Did("wait") /\ output.success) =>
        /\ output.stdout.form = "invalid_utf8"
              => /\ result = Err("Utf8")
                 /\ ~Did("from_str")
        /\ (output.stdout.form # "invalid_utf8" /\ ~FromStr(output.stdout).ok)
              => /\ result = Err("Json")
                 /\ trace = Steps
        /\ (output.stdout.form = "json" /\ DecodeMetadata(output.stdout.doc).ok)
              => /\ result = Ok(DecodeMetadata(output.stdout.doc).val)
                 /\ trace = Steps

C9_Witness ==
    /\ pc = "done"
    /\ PlainEntry
    /\ output.success
    /\ output.stdout.form = "invalid_utf8"
    /\ output.stderr # <<>>
    /\ result.kind = "Utf8"
    /\ trace = <<"spawn", "wait", "from_utf8">>

====
